---- MODULE Spec2Model ----
(***************************************************************************)
(* A model of extract_images.py: extract_base64_images (the scan of a text *)
(* for data:image/...;base64,... URIs, the decoding and writing of each    *)
(* image, the rewriting of the text) and process_html_file (the file       *)
(* pipeline around it).                                                    *)
(*                                                                         *)
(* A text is a sequence of one-character strings.  A path of the file      *)
(* system is a sequence of components, each component a text.  The         *)
(* content of a binary file is a sequence of bytes (0..255); the content   *)
(* of a text file is a sequence of byte tokens (see Utf8Encode).           *)
(***************************************************************************)
EXTENDS Integers, Sequences, FiniteSets, TLC

VARIABLES
    cwd,            \* the current working directory (an absolute path)
    dirs,           \* the directories of the file system (absolute paths)
    files,          \* the files of the file system: absolute path -> content
    files0,         \* the files of the file system when the run began
    caller,         \* "direct": extract_base64_images called on its own;
                    \* "file": called by process_html_file
    pc,             \* the position of the run
    html_content,   \* the text handed to extract_base64_images
    output_dir,     \* extract_base64_images' output_dir argument
    pos,            \* re.sub's scan position (index of the next character)
    image_count,    \* the closure counter of extract_base64_images
    modified_html,  \* the text re.sub has built so far
    log,            \* one record per call of replace_base64, in call order
    report,         \* what line 67 printed ("Total images extracted"), -1 before
    input_file,     \* process_html_file's input_file argument (a text)
    output_file,    \* process_html_file's output_file argument (None, or a text)
    output_path,    \* process_html_file's output_path (a text), None before
    original_size,  \* process_html_file's original_size, -1 before
    raised          \* the exception that ended the run and the line that
                    \* raised it, NoException when none

vars == << cwd, dirs, files, files0, caller, pc, html_content, output_dir, pos,
           image_count, modified_html, log, report, input_file, output_file,
           output_path, original_size, raised >>

---------------------------------------------------------------------------
(* Bounds of the model *)

\* The texts handed to extract_base64_images are made of at most MaxPieces
\* pieces of Pieces.
MaxPieces == 3

---------------------------------------------------------------------------
(* Texts *)

None == <<"<None>">>

NoException == <<"", 0>>

\* text[i..] starts with the non-empty text lit
StartsWith(text, i, lit) ==
    /\ i + Len(lit) - 1 <= Len(text)
    /\ text[i] = lit[1]
    /\ SubSeq(text, i, i + Len(lit) - 1) = lit

\* The least and the greatest element of a non-empty set of integers
MinOf(S) == CHOOSE x \in S : \A y \in S : x <= y
MaxOf(S) == CHOOSE x \in S : \A y \in S : x >= y

RECURSIVE Concat(_)
Concat(seqs) ==
    IF seqs = << >> THEN << >> ELSE Head(seqs) \o Concat(Tail(seqs))

---------------------------------------------------------------------------
(* The pattern of line 28:                                                 *)
(*   data:image/(png|jpeg|jpg|gif|webp|svg\+xml);base64,([A-Za-z0-9+/=]+)  *)

DataImagePrefix == <<"d","a","t","a",":","i","m","a","g","e","/">>

Base64Marker == <<";","b","a","s","e","6","4",",">>

\* The alternation with bmp added to it.
ImageTypesWithBmp ==
    << <<"p","n","g">>, <<"j","p","e","g">>, <<"j","p","g">>,
       <<"g","i","f">>, <<"w","e","b","p">>,
       <<"s","v","g","+","x","m","l">>, <<"b","m","p">> >>

\* The alternation of group 1, in the order the pattern tries it.
ImageTypes ==
    << <<"p","n","g">>, <<"j","p","e","g">>, <<"j","p","g">>,
       <<"g","i","f">>, <<"w","e","b","p">>,
       <<"s","v","g","+","x","m","l">> >>

\* The base64 alphabet, in the order of its values 0..63.
B64Chars ==
    <<"A","B","C","D","E","F","G","H","I","J","K","L","M","N","O","P","Q","R",
      "S","T","U","V","W","X","Y","Z","a","b","c","d","e","f","g","h","i","j",
      "k","l","m","n","o","p","q","r","s","t","u","v","w","x","y","z","0","1",
      "2","3","4","5","6","7","8","9","+","/">>

B64Pad == "="

\* The character class [A-Za-z0-9+/=] of group 2.
PayloadChars == { B64Chars[k] : k \in 1..64 } \cup {B64Pad}

PayloadChar(c) == c \in PayloadChars

\* The greedy [A-Za-z0-9+/=]+ from index j: the index of the last character
\* of the maximal run that starts at j (j - 1 when the run is empty).
RECURSIVE PayloadEnd(_, _)
PayloadEnd(text, j) ==
    IF j <= Len(text) /\ PayloadChar(text[j])
    THEN PayloadEnd(text, j + 1)
    ELSE j - 1

NoMatch == [found |-> FALSE]

\* The pattern tried at index i with the alternatives k.. of group 1: the
\* first alternative after which the rest of the pattern matches.
RECURSIVE MatchTypeAt(_, _, _)
MatchTypeAt(text, i, k) ==
    IF k > Len(ImageTypes) THEN NoMatch
    ELSE LET t == ImageTypes[k]
             j == i + Len(DataImagePrefix)
             m == j + Len(t)
             d == m + Len(Base64Marker)
             e == PayloadEnd(text, d)
         IN  IF /\ StartsWith(text, j, t)
                /\ StartsWith(text, m, Base64Marker)
                /\ e >= d
             THEN [found |-> TRUE, start |-> i, end |-> e,
                   img_type |-> t, base64_data |-> SubSeq(text, d, e)]
             ELSE MatchTypeAt(text, i, k + 1)

\* The pattern tried at index i.
MatchAt(text, i) ==
    IF StartsWith(text, i, DataImagePrefix)
    THEN MatchTypeAt(text, i, 1)
    ELSE NoMatch

\* re.sub's search: the leftmost match that starts at or after index i.
FindMatch(text, i) ==
    LET starts == { k \in i..Len(text) :
                       text[k] = DataImagePrefix[1] /\ MatchAt(text, k).found }
    IN  IF starts = {} THEN NoMatch ELSE MatchAt(text, MinOf(starts))

---------------------------------------------------------------------------
(* base64.b64decode(base64_data) of line 52: binascii.a2b_base64 in its    *)
(* default (non-strict) mode on a string of alphabet characters and pads.  *)

B64Value(c) == (CHOOSE k \in 1..64 : B64Chars[k] = c) - 1

\* The decoder's loop from character i on, with its quad_pos, leftchar and
\* pads, and the bytes out written so far.
RECURSIVE B64Loop(_, _, _, _, _, _)
B64Loop(s, i, quad_pos, leftchar, pads, out) ==
    IF i > Len(s)
    THEN \* the end of the input: a quad left open is an error
         [ok |-> quad_pos = 0, data |-> out]
    ELSE IF s[i] = B64Pad
    THEN IF quad_pos >= 2 /\ quad_pos + pads + 1 >= 4
         THEN \* a complete pad sequence: no more input is parsed
              [ok |-> TRUE, data |-> out]
         ELSE B64Loop(s, i + 1, quad_pos, leftchar,
                      IF quad_pos >= 2 THEN pads + 1 ELSE pads, out)
    ELSE LET v == B64Value(s[i])
         IN  CASE quad_pos = 0 ->
                    B64Loop(s, i + 1, 1, v, 0, out)
               [] quad_pos = 1 ->
                    B64Loop(s, i + 1, 2, v % 16, 0,
                            Append(out, (leftchar * 4 + v \div 16) % 256))
               [] quad_pos = 2 ->
                    B64Loop(s, i + 1, 3, v % 4, 0,
                            Append(out, (leftchar * 16 + v \div 4) % 256))
               [] OTHER ->
                    B64Loop(s, i + 1, 0, 0, 0,
                            Append(out, (leftchar * 64 + v) % 256))

\* A decoder that loses the last byte.
b64decodeTruncated(s) ==
    LET r == B64Loop(s, 1, 0, 0, 0, << >>)
    IN  [ok |-> r.ok, data |-> SubSeq(r.data, 1, Len(r.data) - 1)]

b64decode(s) == B64Loop(s, 1, 0, 0, 0, << >>)

---------------------------------------------------------------------------
(* The file name of lines 41-48 *)

DigitChars == <<"0","1","2","3","4","5","6","7","8","9">>

\* str(n) for n >= 0
RECURSIVE Decimal(_)
Decimal(n) ==
    IF n < 10 THEN << DigitChars[n + 1] >>
    ELSE Append(Decimal(n \div 10), DigitChars[(n % 10) + 1])

RECURSIVE ZeroPad(_, _)
ZeroPad(digits, width) ==
    IF Len(digits) >= width THEN digits ELSE ZeroPad(<<"0">> \o digits, width)

PadWidth == 4

\* f"{n:04d}" for n >= 0
Format04d(n) == ZeroPad(Decimal(n), PadWidth)

SvgXml == <<"s","v","g","+","x","m","l">>

\* The subtype used as the extension, svg+xml too.
ExtensionVerbatim(img_type) == img_type

\* lines 41-44
Extension(img_type) ==
    IF img_type = SvgXml THEN <<"s","v","g">> ELSE img_type

\* line 47: f"image_{image_count:04d}.{extension}"
Filename(count, extension) ==
    <<"i","m","a","g","e","_">> \o Format04d(count) \o <<".">> \o extension

\* line 61: f"./{output_dir}/{filename}"
Reference(dir, filename) == <<".", "/">> \o dir \o <<"/">> \o filename

---------------------------------------------------------------------------
(* Paths and the file system *)

\* The components of a path written with "/": empty components and "."
\* components are dropped, as pathlib and the operating system do.
ComponentStarts(text) ==
    { i \in 1..Len(text) : text[i] # "/" /\ (i = 1 \/ text[i - 1] = "/") }

\* The component that starts at index i
ComponentAt(text, i) ==
    LET ends == { j \in i..Len(text) : j = Len(text) \/ text[j + 1] = "/" }
    IN  SubSeq(text, i, MinOf(ends))

NotDot(component) == component # <<".">>

SplitPath(text) ==
    LET starts == ComponentStarts(text)
        nth(k) == CHOOSE i \in starts :
                      Cardinality({ j \in starts : j < i }) = k - 1
    IN  SelectSeq([k \in 1..Cardinality(starts) |-> ComponentAt(text, nth(k))],
                  NotDot)

IsAbsolute(text) == Len(text) > 0 /\ text[1] = "/"

\* The absolute path the operating system resolves path text to, in
\* directory base.
Resolve(base, text) ==
    IF IsAbsolute(text) THEN SplitPath(text) ELSE base \o SplitPath(text)

Parent(path) == SubSeq(path, 1, Len(path) - 1)

\* os.path.join(a, b) of line 48, for a relative b
PathJoin(a, b) ==
    IF a = << >> \/ a[Len(a)] = "/" THEN a \o b ELSE a \o <<"/">> \o b

Exists(path) == path \in dirs \/ path \in DOMAIN files

\* The file system with content written to the file at path.
WriteFile(fs, path, content) ==
    [p \in DOMAIN fs \cup {path} |-> IF p = path THEN content ELSE fs[p]]

\* open(path, 'w' or 'wb') succeeds only in an existing directory, on a path
\* that is no directory.
CanOpenForWrite(path) == Parent(path) \in dirs /\ path \notin dirs

---------------------------------------------------------------------------
(* extract_base64_images, lines 12-69 *)

\* Line 24: Path(output_dir).mkdir(exist_ok=True).  Without parents=True a
\* missing parent raises FileNotFoundError; a path that exists and is no
\* directory raises FileExistsError; an existing directory is left as it is.
\* mkdir without exist_ok: an existing directory raises too.
MkdirOutcomeNotExistOk(path) ==
    IF Exists(path) THEN "FileExistsError"
    ELSE IF Parent(path) \notin dirs THEN "FileNotFoundError"
    ELSE "created"

MkdirOutcome(path) ==
    IF path \in dirs THEN "exists"
    ELSE IF path \in DOMAIN files THEN "FileExistsError"
    ELSE IF Parent(path) \notin dirs THEN "FileNotFoundError"
    ELSE "created"

Mkdir ==
    /\ pc = "mkdir"
    /\ LET path == Resolve(cwd, output_dir)
           outcome == MkdirOutcome(path)
       IN  /\ dirs' = IF outcome = "created" THEN dirs \cup {path} ELSE dirs
           /\ raised' = IF outcome \in {"created", "exists"}
                        THEN NoException
                        ELSE <<outcome, 24>>
           /\ pc' = IF outcome \in {"created", "exists"} THEN "scan" ELSE "raised"
    /\ UNCHANGED << cwd, files0, files, caller, html_content, output_dir, pos,
                    image_count, modified_html, log, report, input_file,
                    output_file, output_path, original_size >>

\* Lines 34-48 for the match re.sub hands to replace_base64.
ImageOf(match, count) ==
    LET filename == Filename(count, Extension(match.img_type))
        filepath == PathJoin(output_dir, filename)
    IN  [count |-> count, filename |-> filename,
         abspath |-> Resolve(cwd, filepath),
         decoded |-> b64decode(match.base64_data)]

\* A replace_base64 that returns group 2 (the payload) when lines 51-55 raised.
ReplacementPayloadOnError(match, outcome, filename) ==
    IF outcome = "ok"
    THEN Reference(output_dir, filename)
    ELSE match.base64_data

\* What replace_base64 returns: the reference (line 61), or the matched text
\* when lines 51-55 raised (line 58).
Replacement(match, outcome, filename) ==
    IF outcome = "ok"
    THEN Reference(output_dir, filename)
    ELSE SubSeq(html_content, match.start, match.end)

\* One call of replace_base64 by re.sub (lines 32-61, and re.sub's copy of
\* the text between the matches): outcome is how lines 51-58 went, opened
\* whether line 53 opened the file, left what the file then holds.
ReplaceBase64(match, outcome, opened, left) ==
    LET count == image_count + 1
        img == ImageOf(match, count)
        replacement == Replacement(match, outcome, img.filename)
        before == modified_html \o SubSeq(html_content, pos, match.start - 1)
    IN  /\ image_count' = count
        /\ files' = IF opened THEN WriteFile(files, img.abspath, left) ELSE files
        /\ modified_html' = before \o replacement
        /\ pos' = match.end + 1
        /\ log' = Append(log, [start |-> match.start, end |-> match.end,
                               img_type |-> match.img_type,
                               base64_data |-> match.base64_data,
                               count |-> count,
                               filename |-> img.filename,
                               abspath |-> img.abspath,
                               outcome |-> outcome,
                               out_start |-> Len(before) + 1,
                               out_end |-> Len(before) + Len(replacement)])
        /\ UNCHANGED << cwd, files0, dirs, caller, pc, html_content,
                        output_dir, report, input_file, output_file,
                        output_path, original_size, raised >>

\* The payload decodes and the file is written (lines 52-55, 61).
ReplaceOk ==
    /\ pc = "scan"
    /\ LET match == FindMatch(html_content, pos)
       IN  /\ match.found
           /\ LET img == ImageOf(match, image_count + 1)
              IN  /\ img.decoded.ok
                  /\ CanOpenForWrite(img.abspath)
                  /\ ReplaceBase64(match, "ok", TRUE, img.decoded.data)

\* A replace_base64 that opens the file before it decodes the payload.
ReplaceDecodeErrorAfterOpen ==
    /\ pc = "scan"
    /\ LET match == FindMatch(html_content, pos)
       IN  /\ match.found
           /\ ~ImageOf(match, image_count + 1).decoded.ok
           /\ ReplaceBase64(match, "decode_error", TRUE, << >>)

\* b64decode raises (lines 52, 56-58), before the file is opened.
ReplaceDecodeError ==
    /\ pc = "scan"
    /\ LET match == FindMatch(html_content, pos)
       IN  /\ match.found
           /\ ~ImageOf(match, image_count + 1).decoded.ok
           /\ ReplaceBase64(match, "decode_error", FALSE, << >>)

\* open raises (lines 53, 56-58): the file system is as it was.
ReplaceOpenError ==
    /\ pc = "scan"
    /\ LET match == FindMatch(html_content, pos)
       IN  /\ match.found
           /\ ImageOf(match, image_count + 1).decoded.ok
           /\ ReplaceBase64(match, "open_error", FALSE, << >>)

\* f.write raises (lines 54, 56-58): the file was opened, so it exists and
\* was truncated, and holds the part of the data written before the error.
ReplaceWriteError ==
    /\ pc = "scan"
    /\ LET match == FindMatch(html_content, pos)
       IN  /\ match.found
           /\ LET img == ImageOf(match, image_count + 1)
              IN  /\ img.decoded.ok
                  /\ CanOpenForWrite(img.abspath)
                  /\ \E n \in 0..(Len(img.decoded.data) - 1) :
                        ReplaceBase64(match, "write_error", TRUE,
                                      SubSeq(img.decoded.data, 1, n))

\* re.sub finds no further match and returns (lines 65-69).
Finish ==
    /\ pc = "scan"
    /\ ~FindMatch(html_content, pos).found
    /\ modified_html' =
           modified_html \o SubSeq(html_content, pos, Len(html_content))
    /\ pos' = Len(html_content) + 1
    /\ report' = image_count
    /\ pc' = IF caller = "file" THEN "write" ELSE "done"
    /\ UNCHANGED << cwd, files0, dirs, files, caller, html_content, output_dir,
                    image_count, log, input_file, output_file, output_path,
                    original_size, raised >>

ExtractBase64Images ==
    \/ Mkdir
    \/ ReplaceOk
    \/ ReplaceDecodeError
    \/ ReplaceOpenError
    \/ ReplaceWriteError
    \/ Finish

---------------------------------------------------------------------------
(* The runs of extract_base64_images *)

HdrPng == DataImagePrefix \o <<"p","n","g">> \o Base64Marker
HdrSvg == DataImagePrefix \o SvgXml \o Base64Marker
HdrBmp == DataImagePrefix \o <<"b","m","p">> \o Base64Marker
HdrJpg == DataImagePrefix \o <<"j","p","g">> \o Base64Marker
HdrUpper ==
    <<"D","A","T","A",":","i","m","a","g","e","/","p","n","g">> \o Base64Marker

\* A whole data URI of subtype svg+xml whose payload decodes to the bytes
\* 65, 66, and a character that ends the payload.
SvgUri == HdrSvg \o <<"Q","U","I","=">> \o <<")">>

\* What the texts are made of: the start of a data URI of a recognized
\* subtype (png, jpg), of an unrecognized one (bmp) and of one in another
\* case; a whole data URI; a payload that decodes (to the byte 65); and a
\* character that, as a payload of its own, does not decode, followed by a
\* character that ends the payload.
Pieces ==
    { HdrPng, HdrJpg, HdrBmp, HdrUpper, SvgUri,
      <<"Q","Q","=","=">>, <<"A",")">> }

Texts ==
    UNION { { Concat(s) : s \in [1..n -> Pieces] } : n \in 0..MaxPieces }

Images == <<"i","m","a","g","e","s">>

Root == << >>
WorkDir == << <<"w">> >>

OldPng == <<"i","m","a","g","e","_","0","0","0","1",".","p","n","g">>
OldSvg == <<"i","m","a","g","e","_","0","0","0","2",".","s","v","g">>

\* The file systems a run starts in: no output directory yet; an empty one;
\* one that an earlier run has written two images to; and a regular file
\* where the output directory would be.
DirectFileSystems ==
    LET d == WorkDir \o << Images >>
    IN  { [dirs |-> {Root, WorkDir}, files |-> << >>],
          [dirs |-> {Root, WorkDir, d}, files |-> << >>],
          [dirs |-> {Root, WorkDir, d},
           files |-> [p \in {d \o <<OldPng>>, d \o <<OldSvg>>} |->
                         IF p = d \o <<OldPng>> THEN <<1>> ELSE <<2>>]],
          [dirs |-> {Root, WorkDir},
           files |-> [p \in {d} |-> <<0>>]] }

InitDirect ==
    /\ caller = "direct"
    /\ cwd = WorkDir
    /\ \E fs \in DirectFileSystems : dirs = fs.dirs /\ files = fs.files
    /\ files0 = files
    /\ html_content \in Texts
    /\ output_dir = Images
    /\ pc = "mkdir"
    /\ pos = 1
    /\ image_count = 0
    /\ modified_html = << >>
    /\ log = << >>
    /\ report = -1
    /\ input_file = None
    /\ output_file = None
    /\ output_path = None
    /\ original_size = -1
    /\ raised = NoException

---------------------------------------------------------------------------
(* process_html_file, lines 71-123 *)

\* The encodings of lines 98, 102 and 110, on the bytes and characters that
\* the files of the model are made of: an ASCII byte and its character are
\* the same one-character string; the other bytes are written "0x..", the
\* other characters "U+....".
\* The two bytes at index i are the UTF-8 form of U+00E9.
Utf8PairAt(bytes, i) ==
    i >= 1 /\ i < Len(bytes) /\ bytes[i] = "0xC3" /\ bytes[i + 1] = "0xA9"

NotSkipped(c) == c # "<skipped>"

\* bytes.decode('utf-8'): a lead byte without its continuation bytes, or a
\* continuation byte without its lead byte, is a UnicodeDecodeError.
Utf8Decode(bytes) ==
    LET bad == { i \in 1..Len(bytes) :
                    /\ bytes[i] \in {"0xE9", "0xC3", "0xA9"}
                    /\ ~Utf8PairAt(bytes, i)
                    /\ ~Utf8PairAt(bytes, i - 1) }
        chars == [i \in 1..Len(bytes) |->
                    IF Utf8PairAt(bytes, i) THEN "U+00E9"
                    ELSE IF Utf8PairAt(bytes, i - 1) THEN "<skipped>"
                    ELSE bytes[i]]
    IN  IF bad # {} THEN [ok |-> FALSE, text |-> << >>]
        ELSE [ok |-> TRUE, text |-> SelectSeq(chars, NotSkipped)]

Latin1Char(byte) ==
    CASE byte = "0xE9" -> "U+00E9"
      [] byte = "0xC3" -> "U+00C3"
      [] byte = "0xA9" -> "U+00A9"
      [] OTHER -> byte

Latin1Decode(bytes) == [i \in 1..Len(bytes) |-> Latin1Char(bytes[i])]

Utf8EncodeChar(c) ==
    CASE c = "U+00E9" -> <<"0xC3", "0xA9">>
      [] c = "U+00C3" -> <<"0xC3", "0x83">>
      [] c = "U+00A9" -> <<"0xC2", "0xA9">>
      [] OTHER -> << c >>

\* The number of bytes that encode the characters before index i
Utf8Offset(text, i) ==
    (i - 1) + Cardinality({ k \in 1..(i - 1) : Len(Utf8EncodeChar(text[k])) = 2 })

\* text.encode('utf-8')
Utf8Encode(text) ==
    [j \in 1..Utf8Offset(text, Len(text) + 1) |->
        LET i == CHOOSE i \in 1..Len(text) :
                    /\ Utf8Offset(text, i) < j
                    /\ j <= Utf8Offset(text, i) + Len(Utf8EncodeChar(text[i]))
        IN  Utf8EncodeChar(text[i])[j - Utf8Offset(text, i)]]

\* Lines 97-103: the text of a file of these bytes
ReadText(bytes) ==
    IF Utf8Decode(bytes).ok THEN Utf8Decode(bytes).text ELSE Latin1Decode(bytes)

\* Path(text).name
Name(text) ==
    LET c == SplitPath(text) IN IF c = << >> THEN << >> ELSE c[Len(c)]

\* name.rfind('.'), counted from 1 (0 when there is no dot)
RFindDot(name) ==
    LET dots == { i \in 1..Len(name) : name[i] = "." }
    IN  IF dots = {} THEN 0 ELSE MaxOf(dots)

\* Path(text).suffix and Path(text).stem: the name is split at its last dot,
\* unless that dot starts or ends the name.
Suffix(text) ==
    LET name == Name(text)
        i == RFindDot(name)
    IN  IF 1 < i /\ i < Len(name) THEN SubSeq(name, i, Len(name)) ELSE << >>

Stem(text) ==
    LET name == Name(text)
        i == RFindDot(name)
    IN  IF 1 < i /\ i < Len(name) THEN SubSeq(name, 1, i - 1) ELSE name

\* Line 87
DefaultOutputFile(input) ==
    Stem(input) \o <<"_","o","p","t","i","m","i","z","e","d">> \o Suffix(input)

\* Lines 79-83: the input file does not exist; the function returns.
FileNotFound ==
    /\ pc = "start"
    /\ ~Exists(Resolve(cwd, input_file))
    /\ pc' = "returned"
    /\ UNCHANGED << cwd, files0, dirs, files, caller, html_content, output_dir, pos,
                    image_count, modified_html, log, report, input_file,
                    output_file, output_path, original_size, raised >>

\* Lines 79-106: the input file exists and is read, as UTF-8, or as Latin-1
\* when it is no UTF-8; extract_base64_images is called with its text.
FileRead ==
    /\ pc = "start"
    /\ Resolve(cwd, input_file) \in DOMAIN files
    /\ original_size' = Len(files[Resolve(cwd, input_file)])
    /\ html_content' = ReadText(files[Resolve(cwd, input_file)])
    /\ output_path' = IF output_file = None
                      THEN DefaultOutputFile(input_file)
                      ELSE output_file
    /\ pc' = "mkdir"
    /\ UNCHANGED << cwd, files0, dirs, files, caller, output_dir, pos, image_count,
                    modified_html, log, report, input_file, output_file,
                    raised >>

\* Lines 79-98: the input path exists and is a directory: stat gives a size
\* (the file system's choice), and open raises.
FileReadError ==
    /\ pc = "start"
    /\ Resolve(cwd, input_file) \in dirs
    /\ original_size' \in {0, 4096}
    /\ output_path' = IF output_file = None
                      THEN DefaultOutputFile(input_file)
                      ELSE output_file
    /\ raised' = <<"IsADirectoryError", 98>>
    /\ pc' = "raised"
    /\ UNCHANGED << cwd, files0, dirs, files, caller, html_content, output_dir, pos,
                    image_count, modified_html, log, report, input_file,
                    output_file >>

\* Lines 108-111: the output HTML is written.
FileWrite ==
    /\ pc = "write"
    /\ CanOpenForWrite(Resolve(cwd, output_path))
    /\ files' = WriteFile(files, Resolve(cwd, output_path),
                          Utf8Encode(modified_html))
    /\ pc' = "report"
    /\ UNCHANGED << cwd, files0, dirs, caller, html_content, output_dir, pos,
                    image_count, modified_html, log, report, input_file,
                    output_file, output_path, original_size, raised >>

\* Line 110: the output HTML cannot be opened; open raises.
FileWriteError ==
    /\ pc = "write"
    /\ ~CanOpenForWrite(Resolve(cwd, output_path))
    /\ raised' = IF Resolve(cwd, output_path) \in dirs
                 THEN <<"IsADirectoryError", 110>>
                 ELSE <<"FileNotFoundError", 110>>
    /\ pc' = "raised"
    /\ UNCHANGED << cwd, files0, dirs, files, caller, html_content, output_dir, pos,
                    image_count, modified_html, log, report, input_file,
                    output_file, output_path, original_size >>

\* Lines 113-123: the sizes are compared and reported.
FileReport ==
    /\ pc = "report"
    /\ original_size # 0
    /\ pc' = "done"
    /\ UNCHANGED << cwd, files0, dirs, files, caller, html_content, output_dir, pos,
                    image_count, modified_html, log, report, input_file,
                    output_file, output_path, original_size, raised >>

\* Line 115: (original_size - new_size) / original_size divides by zero.
FileReportError ==
    /\ pc = "report"
    /\ original_size = 0
    /\ raised' = <<"ZeroDivisionError", 115>>
    /\ pc' = "raised"
    /\ UNCHANGED << cwd, files0, dirs, files, caller, html_content, output_dir, pos,
                    image_count, modified_html, log, report, input_file,
                    output_file, output_path, original_size >>

ProcessHtmlFile ==
    \/ FileNotFound
    \/ FileRead
    \/ FileReadError
    \/ ExtractBase64Images
    \/ FileWrite
    \/ FileWriteError
    \/ FileReport
    \/ FileReportError

---------------------------------------------------------------------------
(* The runs of process_html_file *)

SubDir == WorkDir \o << <<"s","u","b">> >>
OutDir == WorkDir \o << <<"o","u","t">> >>

PHtml == <<"p",".","h","t","m","l">>

\* The input files: an empty one; one without a data URI; one data URI that
\* decodes; one that does not; a byte that is no UTF-8 before a data URI;
\* two data URIs.
FileContents ==
    { << >>,
      <<"A", ")">>,
      HdrPng \o <<"Q","Q","=","=">>,
      HdrPng \o <<"A", ")">>,
      <<"0xE9">> \o SvgUri,
      SvgUri \o HdrJpg \o <<"Q","Q","=","=">> }

\* The input_file arguments: a file of the working directory, a file of its
\* subdirectory sub, a directory, and a path that does not exist.
InputFiles ==
    { PHtml,
      <<"s","u","b","/">> \o PHtml,
      <<"s","u","b">>,
      <<"q",".","h","t","m","l">> }

\* The output_file arguments: none, a file of the working directory, a file
\* of the directory out, and a file of a directory that does not exist.
OutputFiles ==
    { None,
      <<"o",".","h","t","m","l">>,
      <<"o","u","t","/","o",".","h","t","m","l">>,
      <<"n","o","/","o",".","h","t","m","l">> }

InitFile ==
    /\ caller = "file"
    /\ cwd \in {WorkDir, SubDir}
    /\ dirs = {Root, WorkDir, SubDir, OutDir}
    /\ \E c \in FileContents :
          files = [p \in {WorkDir \o <<PHtml>>, SubDir \o <<PHtml>>} |-> c]
    /\ files0 = files
    /\ input_file \in InputFiles
    /\ output_file \in OutputFiles
    /\ output_path = None
    /\ original_size = -1
    /\ html_content = << >>
    /\ output_dir = Images
    /\ pc = "start"
    /\ pos = 1
    /\ image_count = 0
    /\ modified_html = << >>
    /\ log = << >>
    /\ report = -1
    /\ raised = NoException

Next == ExtractBase64Images

Spec == InitDirect /\ [][Next]_vars

NextFile == ProcessHtmlFile

SpecFile == InitFile /\ [][NextFile]_vars

---------------------------------------------------------------------------
(* Properties *)

\* The subtypes the specification recognizes
RecognizedSubtypes ==
    { <<"p","n","g">>, <<"j","p","e","g">>, <<"j","p","g">>, <<"g","i","f">>,
      <<"w","e","b","p">>, <<"s","v","g","+","x","m","l">> }

DataUriHeader(subtype) ==
    <<"d","a","t","a",":","i","m","a","g","e","/">> \o subtype
        \o <<";","b","a","s","e","6","4",",">>

\* A data URI of recognized subtype t, with a payload of at least one
\* character, starts at index i of text.
DataUriOfTypeAt(text, i, t) ==
    /\ StartsWith(text, i, DataUriHeader(t))
    /\ i + Len(DataUriHeader(t)) <= Len(text)
    /\ PayloadChar(text[i + Len(DataUriHeader(t))])

DataUriStarts(text) ==
    { i \in 1..Len(text) :
        /\ text[i] = "d"
        /\ \E t \in RecognizedSubtypes : DataUriOfTypeAt(text, i, t) }

\* The subtype the data URI at index i declares
SubtypeAt(text, i) ==
    CHOOSE t \in RecognizedSubtypes : DataUriOfTypeAt(text, i, t)

\* The index of the last character of the data URI that starts at index i:
\* its payload is the longest run of payload characters.
DataUriEnd(text, i) ==
    LET d == i + Len(DataUriHeader(SubtypeAt(text, i)))
    IN  CHOOSE e \in d..Len(text) :
            /\ \A c \in d..e : PayloadChar(text[c])
            /\ e = Len(text) \/ ~PayloadChar(text[e + 1])

\* The starts of the matches: the data URIs taken from left to right, each
\* the first that starts after the end of the one before.
RECURSIVE MatchStartsAmong(_, _)
MatchStartsAmong(text, starts) ==
    IF starts = {} THEN {}
    ELSE {MinOf(starts)}
            \cup MatchStartsAmong(text,
                    { i \in starts : i > DataUriEnd(text, MinOf(starts)) })

MatchStarts(text) == MatchStartsAmong(text, DataUriStarts(text))

\* The k-th smallest element of a set of integers
KthOf(S, k) == CHOOSE x \in S : Cardinality({ y \in S : y < x }) = k - 1

Extracted(k) == log[k].outcome = "ok"

NumberExtracted == Cardinality({ k \in 1..Len(log) : Extracted(k) })

\* The text that replaced the k-th match in the returned text
ReplacedBy(k) == SubSeq(modified_html, log[k].out_start, log[k].out_end)

MatchedText(k) == SubSeq(html_content, log[k].start, log[k].end)

ReferenceTo(filename) == <<".", "/">> \o output_dir \o <<"/">> \o filename

\* The input text with the spans of the extracted matches replaced by their
\* references: the text before the first match, then in turn what stands
\* for each match and the text that follows it up to the next match.
ExpectedSegment(j) ==
    LET n == Len(log)
        k == (j + 1) \div 2
    IN  IF j % 2 = 1
        THEN SubSeq(html_content,
                    IF k = 1 THEN 1 ELSE log[k - 1].end + 1,
                    IF k = n + 1 THEN Len(html_content) ELSE log[k].start - 1)
        ELSE IF Extracted(k) THEN ReferenceTo(log[k].filename)
        ELSE MatchedText(k)

ExpectedText == Concat([j \in 1..(2 * Len(log) + 1) |-> ExpectedSegment(j)])

\* C1: the text extract_base64_images returns is the input text with exactly
\* the spans of the extracted matches replaced by their references, and all
\* other characters, those of the matches that failed too, kept in order; a
\* text without a data URI of a recognized subtype is returned unchanged and
\* no file is written.
C1_OnlyExtractedSpansReplaced ==
    pc = "done" =>
        /\ modified_html = ExpectedText
        /\ DataUriStarts(html_content) = {} =>
              modified_html = html_content /\ files = files0

\* A run that extracted one match, failed on another and passed over a data
\* URI of subtype bmp.
C1_Witness ==
    /\ pc = "done"
    /\ \E j, k \in 1..Len(log) : Extracted(j) /\ ~Extracted(k)
    /\ \E i \in 1..Len(html_content) : StartsWith(html_content, i, HdrBmp)

\* The base64 encoding of one to three bytes
EncodeQuad(X) ==
    LET b1 == X[1]
        b2 == IF Len(X) >= 2 THEN X[2] ELSE 0
        b3 == IF Len(X) >= 3 THEN X[3] ELSE 0
    IN  << B64Chars[(b1 \div 4) + 1],
           B64Chars[((b1 % 4) * 16 + b2 \div 16) + 1],
           IF Len(X) >= 2 THEN B64Chars[((b2 % 16) * 4 + b3 \div 64) + 1]
                          ELSE "=",
           IF Len(X) >= 3 THEN B64Chars[(b3 % 64) + 1] ELSE "=" >>

\* The byte sequences whose encodings are payloads of the texts
TestBytes == { <<65>>, <<65, 66>>, <<117, 171, 90>> }

FirstPngReference ==
    <<".","/","i","m","a","g","e","s","/",
      "i","m","a","g","e","_","0","0","0","1",".","p","n","g">>

\* C2: at the end of the run, for every match that was extracted and whose
\* payload is the base64 encoding of the bytes X, the file at the match's
\* path holds exactly X, no other match has that path, and the match's span
\* in the returned text is ./<output_dir>/<the file's name>
\* (./images/image_0001.png for a first match of subtype png).
C2_FileHoldsDecodedBytes ==
    pc = "done" =>
        \A k \in 1..Len(log) :
            Extracted(k) =>
                /\ \A X \in TestBytes :
                      log[k].base64_data = EncodeQuad(X) =>
                          /\ log[k].abspath \in DOMAIN files
                          /\ files[log[k].abspath] = X
                /\ \A j \in 1..Len(log) :
                      j # k => log[j].abspath # log[k].abspath
                /\ ReplacedBy(k) =
                      ReferenceTo(log[k].abspath[Len(log[k].abspath)])
                /\ (k = 1 /\ log[k].img_type = <<"p","n","g">>
                          /\ output_dir = Images) =>
                      ReplacedBy(k) = FirstPngReference

\* A run that extracted a first match of subtype png and another match, both
\* with payloads that encode bytes of TestBytes.
C2_Witness ==
    /\ pc = "done"
    /\ Len(log) >= 2
    /\ Extracted(1) /\ log[1].img_type = <<"p","n","g">>
    /\ \E X \in TestBytes : log[1].base64_data = EncodeQuad(X)
    /\ \E k \in 2..Len(log) :
          Extracted(k) /\ \E X \in TestBytes : log[k].base64_data = EncodeQuad(X)

\* k as four decimal digits (k < 10000)
FourDigits(k) ==
    << DigitChars[((k \div 1000) % 10) + 1], DigitChars[((k \div 100) % 10) + 1],
       DigitChars[((k \div 10) % 10) + 1], DigitChars[(k % 10) + 1] >>

ExpectedFilename(k, subtype) ==
    <<"i","m","a","g","e","_">> \o FourDigits(k) \o <<".">>
        \o (IF subtype = <<"s","v","g","+","x","m","l">>
            THEN <<"s","v","g">> ELSE subtype)

\* C3: the k-th call of replace_base64 is for the k-th match of the text,
\* from the left, and gives it the file name image_<k in four digits>.<ext>,
\* ext being the subtype the URI declares, and svg for svg+xml; a run that
\* extracted all n matches of its text has written exactly the files 1..n.
C3_SequenceNumbersInScanOrder ==
    LET starts == MatchStarts(html_content)
    IN  /\ \A k \in 1..Len(log) :
              /\ k <= Cardinality(starts)
              /\ log[k].start = KthOf(starts, k)
              /\ log[k].filename =
                    ExpectedFilename(k, SubtypeAt(html_content, log[k].start))
              /\ Extracted(k) =>
                    /\ log[k].abspath =
                          Resolve(cwd, output_dir) \o << log[k].filename >>
                    /\ log[k].abspath \in DOMAIN files
        /\ (pc = "done" /\ \A k \in 1..Len(log) : Extracted(k)) =>
              { p \in DOMAIN files :
                    p \notin DOMAIN files0 \/ files[p] # files0[p] }
                 \subseteq
              { Resolve(cwd, output_dir) \o
                   << ExpectedFilename(k, SubtypeAt(html_content,
                                                    KthOf(starts, k))) >> :
                   k \in 1..Cardinality(starts) }

\* A run that extracted three matches, one of them of subtype svg+xml.
C3_Witness ==
    /\ pc = "done"
    /\ Len(log) = 3
    /\ \A k \in 1..3 : Extracted(k)
    /\ \E k \in 1..3 : log[k].img_type = <<"s","v","g","+","x","m","l">>

\* C4: a match whose payload does not decode is left as it was in the
\* returned text and no file is written at its path; the scan goes on: no
\* exception ends the run after the output directory was made, every match
\* of the text is handed to replace_base64, and a later one whose payload
\* decodes does not fail to decode.
C4_DecodeFailureLeftVerbatim ==
    /\ raised # NoException => raised[2] = 24
    /\ \A k \in 1..Len(log) :
          log[k].outcome = "decode_error" =>
              /\ ReplacedBy(k) = MatchedText(k)
              /\ log[k].abspath \in DOMAIN files =>
                    /\ log[k].abspath \in DOMAIN files0
                    /\ files[log[k].abspath] = files0[log[k].abspath]
    /\ pc = "done" =>
          /\ { log[k].start : k \in 1..Len(log) } = MatchStarts(html_content)
          /\ \A k \in 1..Len(log) :
                (\E X \in TestBytes : log[k].base64_data = EncodeQuad(X)) =>
                    log[k].outcome # "decode_error"

\* A run in which a match failed to decode and a later match was extracted.
C4_Witness ==
    /\ pc = "done"
    /\ \E j, k \in 1..Len(log) :
          j < k /\ log[j].outcome = "decode_error" /\ Extracted(k)

\* C5: the count line 67 reports is the number of matches that were decoded
\* and written; the matches that failed are not in it.
C5_ReportCountsExtractions ==
    pc = "done" => report = NumberExtracted

\* C8: the output directory exists before replace_base64 is first called;
\* mkdir raises for no path that is a directory already; and a run into a
\* directory that holds files overwrites those it extracts an image to (with
\* the bytes its payload encodes) and leaves the others as they were.
C8_DirectoryCreatedIdempotently ==
    /\ (pc \in {"scan", "done"} \/ log # << >>) =>
          Resolve(cwd, output_dir) \in dirs
    /\ pc = "raised" => Resolve(cwd, output_dir) \notin dirs
    /\ pc = "done" =>
          /\ \A k \in 1..Len(log) :
                (Extracted(k) /\ log[k].abspath \in DOMAIN files0) =>
                    \A X \in TestBytes :
                        log[k].base64_data = EncodeQuad(X) =>
                            files[log[k].abspath] = X
          /\ \A p \in DOMAIN files0 :
                (\A k \in 1..Len(log) : log[k].abspath # p) =>
                    p \in DOMAIN files /\ files[p] = files0[p]

\* A run into a directory an earlier run wrote to, which has overwritten a
\* file of the earlier run with other bytes.
C8_Witness ==
    /\ pc = "done"
    /\ \E k \in 1..Len(log) :
          /\ Extracted(k)
          /\ log[k].abspath \in DOMAIN files0
          /\ files[log[k].abspath] # files0[log[k].abspath]

\* The index in the returned text of the character at index i of the input
\* text, for an i outside the matches.
OutIndex(i) ==
    LET prior == { k \in 1..Len(log) : log[k].end < i }
    IN  IF prior = {} THEN i
        ELSE i + (log[MaxOf(prior)].out_end - log[MaxOf(prior)].end)

\* The starts of data URIs the pattern does not recognize
UnrecognizedHeaders == { HdrBmp, HdrUpper }

\* What C9 says of every match: it has the form
\* data:image/<subtype>;base64,<payload>, in that case, with a recognized
\* subtype and the maximal run of payload characters, and ends before the
\* next match starts; the matches are the data URIs taken from left to right.
MatchesHaveTheForm ==
    /\ { log[k].start : k \in 1..Len(log) } = MatchStarts(html_content)
    /\ \A k \in 1..Len(log) :
          /\ log[k].img_type \in RecognizedSubtypes
          /\ StartsWith(html_content, log[k].start,
                        DataUriHeader(log[k].img_type))
          /\ log[k].base64_data =
                SubSeq(html_content,
                       log[k].start + Len(DataUriHeader(log[k].img_type)),
                       log[k].end)
          /\ Len(log[k].base64_data) >= 1
          /\ \A c \in 1..Len(log[k].base64_data) :
                PayloadChar(log[k].base64_data[c])
          /\ \/ log[k].end = Len(html_content)
             \/ ~PayloadChar(html_content[log[k].end + 1])
          /\ k < Len(log) => log[k].end < log[k + 1].start

\* The data URI of an unrecognized subtype that starts at index i is no
\* match and takes no sequence number.
UnrecognizedNotMatched ==
    /\ image_count = Cardinality(MatchStarts(html_content))
    /\ \A i \in 1..Len(html_content) :
          \A h \in UnrecognizedHeaders :
              StartsWith(html_content, i, h) =>
                  \A k \in 1..Len(log) : log[k].start # i
    /\ DataUriStarts(html_content) = {} =>
          /\ image_count = 0
          /\ modified_html = html_content
          /\ files = files0

\* Index i of the input text lies in the span of a match.
InsideMatch(i) ==
    \E k \in 1..Len(log) : log[k].start <= i /\ i <= log[k].end

OutputWritten ==
    /\ caller = "file"
    /\ \/ pc \in {"report", "done"}
       \/ pc = "raised" /\ raised[2] > 111

\* C6: called without an output file, process_html_file writes the rewritten
\* HTML to <input_stem>_optimized<input_extension> in the directory of the
\* input file.
C6_DefaultOutputBesideInput ==
    (OutputWritten /\ output_file = None) =>
        LET expected == Parent(Resolve(cwd, input_file))
                            \o << DefaultOutputFile(input_file) >>
        IN  /\ Resolve(cwd, output_path) = expected
            /\ expected \in DOMAIN files
            /\ files[expected] = Utf8Encode(modified_html)

\* C7: for an input file that exists and can be read, and an output file
\* that can be written, no exception ends process_html_file: an exception
\* that ends it is raised by the read of the input or the write of the
\* output.
C7_OnlyFatalClassesAbort ==
    (caller = "file" /\ raised # NoException) =>
        raised[2] \in {98, 102, 110}

\* C10: every reference of the written output HTML, resolved in the
\* directory of the output HTML file, names the file the run wrote for its
\* match.
C10_ReferencesResolveBesideOutput ==
    OutputWritten =>
        \A k \in 1..Len(log) :
            Extracted(k) =>
                /\ Resolve(Parent(Resolve(cwd, output_path)), ReplacedBy(k))
                      = log[k].abspath
                /\ log[k].abspath \in DOMAIN files

====
